---- MODULE Spec2Model ----
(***************************************************************************)
(* State-machine model of calibrations/96_Ramsey_arb_flux.py: the host     *)
(* script (parameters, QuAM/QOP initialisation, QUA program construction,  *)
(* simulate-or-execute, data fetching, the two analyses and plots, save)   *)
(* and the QUA program it hands to the pulse processor.                    *)
(*                                                                         *)
(* Units.  Frame rotations are counted in 1e-9 turns, so that              *)
(* detuning[Hz] * 1e-9 * (4*t)[ns] is the integer detuning * 4 * t (the    *)
(* 4.28 fixed-point rounding of the hardware is not modelled).  A fitted   *)
(* frequency f [1/ns] is carried as the integer 1e6 * f and a fitted decay *)
(* rate [1/ns] as the integer 1e6 * decay; an averaged stream entry is     *)
(* carried as the pair (sum, cnt) of the running average.                  *)
(*                                                                         *)
(* The pulse processor takes the unrolled blocks of the selected qubits in *)
(* program order (they share the QUA variables n, t and phi), and runs     *)
(* beside the host script from qm.execute on.                              *)
(***************************************************************************)
EXTENDS Integers, Sequences, FiniteSets, TLC

\* ------------------------------------------------------------- bounds
\* Largest num_averages, longest idle-time sweep, and the largest number of
\* measurements (qubits * averages * sweep points) of one run.
MaxAvg == 2
MaxSweep == 2
MaxShots == 6

\* ------------------------------------------------- values and helpers
None == "None"

\* One turn of the frame, in 1e-9 turns (the 1e-9 of line 117).
Turn == 1000000000

\* Values a declare(int) without initial value may hold when the program starts.
UninitValues == {0, 1}

Range(s) == {s[k] : k \in DOMAIN s}

Last(s) == s[Len(s)]

\* The ^ of line 130 on non-negative integers.
RECURSIVE Xor(_, _)
Xor(a, b) ==
    IF a = 0 /\ b = 0 THEN 0
    ELSE (((a % 2) + (b % 2)) % 2) + (2 * Xor(a \div 2, b \div 2))

\* np.sqrt on the perfect squares the fit outcomes below use.
Sqrt(x) == CHOOSE r \in 0..x : r * r = x

\* ---------------------------------------------------- the state file
\* machine.qubits / machine.active_qubits of the loaded QuAM state.
ActiveQubits == <<"q1", "q2">>

MachineQubits == Range(ActiveQubits)

\* The qubit parameters Quam.load() reads from the state file
\* (f_01 in kHz offsets from a reference, T2ramsey in ns).
LoadedMachine == [q \in MachineQubits |-> [f_01 |-> 0, T2ramsey |-> 5000]]

\* ----------------------------------------------------- the parameters
QubitsChoices ==
    { [given |-> FALSE, names |-> <<>>],
      [given |-> TRUE, names |-> <<"q2">>] }

\* np.arange(start, stop, step) for step > 0
ARange(start, stop, step) ==
    LET len == IF stop > start THEN (stop - start + step - 1) \div step ELSE 0
    IN  [j \in 1..len |-> start + (j - 1) * step]

\* idle_times: the sweep in clock cycles
IdleTimes(p) ==
    LET ns == ARange(p.min_wait_time_in_ns, p.max_wait_time_in_ns, 4)
    IN  [j \in DOMAIN ns |-> ns[j] \div 4]

\* The qubits the script selects
SelectedQubits(p) ==
    IF ~p.qubits.given THEN ActiveQubits ELSE p.qubits.names

\* detuning = int(1e6 * frequency_detuning_in_mhz)
Detuning(p) == 1000000 * p.frequency_detuning_in_mhz

Parameters ==
    { p \in [ qubits : QubitsChoices,
              num_averages : 1..MaxAvg,
              frequency_detuning_in_mhz : {5},
              min_wait_time_in_ns : {16},
              max_wait_time_in_ns : {18 + 4 * (k - 1) : k \in 1..MaxSweep},
              simulate : BOOLEAN,
              load_data_id : {None, "id7"},
              multiplexed : BOOLEAN ] :
        Len(SelectedQubits(p)) * p.num_averages * Len(IdleTimes(p)) <= MaxShots }

VARIABLES
    \* host script
    parameters,     \* node.parameters
    machine,        \* the QuAM state loaded by Quam.load()
    pc,             \* position of the script
    qmm,            \* whether the name qmm is bound (machine.connect() was called)
    qubits,         \* the selected qubits (names), in order
    idle_times,     \* the sweep, in clock cycles
    date_time,      \* whether the name date_time is bound
    host_n,         \* the Python name n inside the polling loop (-1: not yet assigned)
    ds,             \* <<>> or <<dataset>>
    fit,            \* <<>> or <<the last fit, qubit -> fitted values>>
    node_results,   \* node.results
    node_machine,   \* node.machine: <<>> or <<machine>>
    saved,          \* what node.save() persisted: <<>> or <<[results, machine]>>
    saveCount,      \* number of node.save() calls
    error,          \* "none", or the kind of the uncaught exception
    failedAt,       \* the position at which it was raised
    \* pulse processor
    job,            \* "none", "running", "done"
    qi,             \* index of the qubit whose unrolled block is running
    n,              \* QUA variable n
    ti,             \* position of for_each_ in idle_times
    t,              \* QUA variable t
    qpc,            \* position inside the program
    phi,            \* QUA variable phi
    init_state,     \* QUA variables init_state[i]
    state,          \* QUA variables state[i]
    final_state,    \* QUA variables final_state[i]
    state_st,       \* streams state_st[i]
    n_st,           \* stream n_st
    frame,          \* frame of each qubit's xy element
    seq,            \* operations played in the current iteration of the inner loop
    meas,           \* per qubit, the outcomes readout_state has returned so far
    iters           \* per qubit, the (n, t) pairs whose iteration has completed

loopv == <<qi, n, ti, t>>
regv == <<phi, init_state, state, final_state>>
streamv == <<state_st, n_st>>
pulsev == <<frame, seq>>
ghostv == <<meas, iters>>
devv == <<job, qpc, loopv, regv, streamv, pulsev, ghostv>>
setupv == <<parameters, machine, qmm, qubits, idle_times, date_time>>
datav == <<ds, fit, node_results, node_machine, saved, saveCount>>
errv == <<error, failedAt>>
hostv == <<pc, setupv, host_n, datav, errv>>
vars == <<hostv, devv>>

num_qubits == Len(qubits)
n_avg == parameters.num_averages

\* node.results as a record of optional entries
NoResults ==
    [figure |-> <<>>, ds |-> <<>>, fit_results |-> <<>>,
     figure_gaussian |-> <<>>, initial_parameters |-> <<>>]

Keys(r) == {k \in DOMAIN r : r[k] # <<>>}

Init ==
    /\ parameters \in Parameters
    /\ machine = LoadedMachine
    /\ pc = "connect"
    /\ qmm = FALSE
    /\ qubits = <<>>
    /\ idle_times = <<>>
    /\ date_time = FALSE
    /\ host_n = -1
    /\ ds = <<>>
    /\ fit = <<>>
    /\ node_results = NoResults
    /\ node_machine = <<>>
    /\ saved = <<>>
    /\ saveCount = 0
    /\ error = "none"
    /\ failedAt = "none"
    /\ job = "none"
    /\ qi = 0
    /\ n = 0
    /\ ti = 0
    /\ t = 0
    /\ qpc = "idle"
    /\ phi = 0
    /\ init_state = <<>>
    /\ state = <<>>
    /\ final_state = <<>>
    /\ state_st = <<>>
    /\ n_st = <<>>
    /\ frame = <<>>
    /\ seq = <<>>
    /\ meas = <<>>
    /\ iters = <<>>

\* ------------------------------------------------ uncaught exceptions
\* Variant: the exception is swallowed (try/except: pass) and the script goes on
Swallowed(resume) == resume

\* The script has no try/except: an exception raised at a step ends the run
\* there, whatever step would have followed.
Uncaught(resume) == "failed"

Raise(kind, resume) ==
    /\ pc' = Uncaught(resume)
    /\ error' = kind
    /\ failedAt' = pc

\* ------------------------------------------------------ host actions
\* Lines 68-69: open communication with the QOP unless data is loaded
Connect ==
    /\ pc = "connect"
    /\ qmm' = (parameters.load_data_id = None)
    /\ pc' = "select_qubits"
    /\ UNCHANGED <<parameters, machine, qubits, idle_times, date_time,
                   host_n, datav, errv, devv>>

\* Lines 72-76
SelectQubitsAction ==
    /\ pc = "select_qubits"
    /\ qubits' = SelectedQubits(parameters)
    /\ pc' = "build"
    /\ UNCHANGED <<parameters, machine, qmm, idle_times, date_time,
                   host_n, datav, errv, devv>>

\* Lines 80-142: the sweep and the QUA program
BuildProgram ==
    /\ pc = "build"
    /\ idle_times' = IdleTimes(parameters)
    /\ pc' = "simulate_or_execute"
    /\ UNCHANGED <<parameters, machine, qmm, qubits, date_time,
                   host_n, datav, errv, devv>>

\* Variant: the results are fetched without waiting for the job
AfterExecuteNoWait == "data_fetching"

\* Where the script goes once qm.execute has returned: the polling loop
AfterExecute == "poll"

\* Lines 147-158: simulate the program (qmm must be bound) and plot the samples
Simulate ==
    /\ pc = "simulate_or_execute"
    /\ parameters.simulate
    /\ IF qmm
       THEN pc' = "sim_save" /\ UNCHANGED errv
       ELSE Raise("NameError", "sim_save")
    /\ UNCHANGED <<setupv, host_n, datav, devv>>

\* Lines 160-162: the simulated run saves the figure of the samples only
SimSave ==
    /\ pc = "sim_save"
    /\ node_results' = [NoResults EXCEPT !.figure = <<"samples">>]
    /\ node_machine' = <<machine>>
    /\ saved' = <<[results |-> node_results', machine |-> machine]>>
    /\ saveCount' = saveCount + 1
    /\ pc' = "done"
    /\ UNCHANGED <<setupv, host_n, ds, fit, errv, devv>>

\* Lines 164-166: date_time is bound and the session is opened
OpenSession ==
    /\ pc = "simulate_or_execute"
    /\ ~parameters.simulate
    /\ parameters.load_data_id = None
    /\ date_time' = TRUE
    /\ pc' = "execute"
    /\ UNCHANGED <<parameters, machine, qmm, qubits, idle_times,
                   host_n, datav, errv, devv>>

\* Neither branch of lines 147/164 is taken when data is loaded
SkipExecute ==
    /\ pc = "simulate_or_execute"
    /\ ~parameters.simulate
    /\ parameters.load_data_id # None
    /\ pc' = "data_fetching"
    /\ UNCHANGED <<setupv, host_n, datav, errv, devv>>

\* Lines 167-168: the program starts on the pulse processor; the QUA variables
\* declared at lines 97-106 have no initial value
Execute ==
    /\ pc = "execute"
    /\ job' = "running"
    /\ qpc' = "set_all_fluxes"
    /\ qi' = 1
    /\ init_state' \in [1..num_qubits -> UninitValues]
    /\ state' = [i \in 1..num_qubits |-> 0]
    /\ final_state' = [i \in 1..num_qubits |-> 0]
    /\ state_st' = [i \in 1..num_qubits |-> <<>>]
    /\ frame' = [i \in 1..num_qubits |-> 0]
    /\ meas' = [i \in 1..num_qubits |-> <<>>]
    /\ iters' = [i \in 1..num_qubits |-> <<>>]
    /\ pc' = AfterExecute
    /\ UNCHANGED <<setupv, host_n, datav, errv, n, ti, t, phi, n_st, seq>>

\* Variant: the loop condition negated (while not results.is_processing())
IsProcessingNegated == job # "running"

\* results.is_processing()
IsProcessing == job = "running"

\* Lines 169-173: one iteration of the polling loop
Poll ==
    /\ pc = "poll"
    /\ IsProcessing
    /\ host_n' = IF n_st # <<>> THEN Last(n_st) ELSE host_n
    /\ UNCHANGED <<pc, setupv, datav, errv, devv>>

\* Line 169: the loop condition is false; the with block ends
ExitPoll ==
    /\ pc = "poll"
    /\ ~IsProcessing
    /\ pc' = "data_fetching"
    /\ UNCHANGED <<setupv, host_n, datav, errv, devv>>

\* ---- stream processing (lines 139-142)
RECURSIVE SumAt(_, _, _)
SumAt(chunks, j, b) ==
    IF b = 0 THEN 0 ELSE chunks[b][j] + SumAt(chunks, j, b - 1)

\* .buffer(len): the complete groups of len consecutive values
Buffer(st, len) ==
    [b \in 1..(Len(st) \div len) |-> [j \in 1..len |-> st[(b - 1) * len + j]]]

\* .average(): the running average of the buffers, entry by entry
Average(chunks, len) ==
    IF chunks = <<>> THEN <<>>
    ELSE [j \in 1..len |->
            [sum |-> SumAt(chunks, j, Len(chunks)), cnt |-> Len(chunks)]]

\* Variant: .average() left out, the last buffer is what is saved
StreamProcessingNoAverage(st, len) ==
    LET chunks == Buffer(st, len)
    IN  IF chunks = <<>> THEN <<>>
        ELSE [j \in 1..len |-> [sum |-> Last(chunks)[j], cnt |-> 1]]

\* state_st[i].buffer(len(idle_times)).average().save(...)
StreamProcessing(st, len) == Average(Buffer(st, len), len)

\* job.result_handles: "n" and "state{i}" for i = 1..num_qubits
ResultHandles ==
    [i \in 1..num_qubits |-> StreamProcessing(state_st[i], Len(idle_times))]

\* fetch_results_as_xarray: the handle state{i} becomes the row of qubits[i]
FetchResultsAsXarray(handles, qs) ==
    [q \in Range(qs) |-> handles[CHOOSE i \in DOMAIN qs : qs[i] = q]]

\* ds.assign_coords(time = 4 * idle_times)
TimeCoords(idle) == [j \in DOMAIN idle |-> 4 * idle[j]]

\* The dataset stored with the node load_data_id names
StoredDataset(qs) ==
    [state |-> [q \in Range(qs) |-> <<[sum |-> 1, cnt |-> 2]>>],
     time |-> <<16>>]

\* Lines 177-185 and 190: fetch the data from the OPX
Fetch ==
    /\ pc = "data_fetching"
    /\ parameters.load_data_id = None
    /\ ds' = <<[state |-> FetchResultsAsXarray(ResultHandles, qubits),
                time |-> TimeCoords(idle_times)]>>
    /\ node_results' = [NoResults EXCEPT !.ds = ds']
    /\ pc' = "analysis_exp"
    /\ UNCHANGED <<setupv, host_n, fit, node_machine, saved, saveCount, errv, devv>>

\* Lines 186-190: take the dataset of the stored node
LoadData ==
    /\ pc = "data_fetching"
    /\ parameters.load_data_id # None
    /\ ds' = <<StoredDataset(qubits)>>
    /\ node_results' = [NoResults EXCEPT !.ds = ds']
    /\ pc' = "analysis_exp"
    /\ UNCHANGED <<setupv, host_n, fit, node_machine, saved, saveCount, errv, devv>>

\* ---- analysis (lines 195-241 and 276-322)
\* What a fit may return for one qubit: f and decay in 1e-6/ns, decay_decay
\* (the variance of decay) in (1e-6/ns)^2
FitOutcomes ==
    { [f |-> 120, decay |-> 50, decay_decay |-> 25],
      [f |-> 0, decay |-> 50, decay_decay |-> 25],
      [f |-> -40, decay |-> 100, decay_decay |-> 100] }

\* frequency.where(frequency > 0, drop=True): the qubits that keep an entry
FrequencyWhere(o) == {q \in DOMAIN o : o[q].f > 0}

\* The record of one qubit: freq_offset in Hz, decay and decay_error in ns
FitRecord(r) ==
    [freq_offset |-> 1000 * r.f,
     decay |-> 1000000 \div r.decay,
     decay_error |-> (1000000 * Sqrt(r.decay_decay)) \div (r.decay * r.decay)]

\* The dict comprehension of lines 233-240 / 314-321
FitResults(o, qs) == [q \in Range(qs) |-> FitRecord(o[q])]

\* Variant: node.results = {"fit_results": fit_results}
OnlyFitResults(r, fr) == [NoResults EXCEPT !.fit_results = <<fr>>]

\* Lines 241 / 322: node.results["fit_results"] = fit_results
WithFitResults(r, fr) == [r EXCEPT !.fit_results = <<fr>>]

PlotSite(site) == IF site = "analysis_exp" THEN "plot_exp" ELSE "plot_gauss"

Analysis(site) ==
    /\ pc = site
    /\ \E o \in [DOMAIN ds[1].state -> FitOutcomes] :
        /\ fit' = <<o>>
        /\ IF Range(qubits) \subseteq FrequencyWhere(o)
           THEN /\ node_results' = WithFitResults(node_results, FitResults(o, qubits))
                /\ pc' = PlotSite(site)
                /\ UNCHANGED errv
           ELSE \* freq_offset.loc[q.name] finds no entry
                /\ Raise("KeyError", PlotSite(site))
                /\ UNCHANGED node_results
    /\ UNCHANGED <<setupv, host_n, ds, node_machine, saved, saveCount, devv>>

AnalysisExp == Analysis("analysis_exp")

AnalysisGauss == Analysis("analysis_gauss")

\* ---- plotting (lines 248-272 and 329-353); suptitle reads date_time
Plot(site, key, next) ==
    /\ pc = site
    /\ IF date_time
       THEN /\ node_results' = [node_results EXCEPT ![key] = <<"grid.fig">>]
            /\ pc' = next
            /\ UNCHANGED errv
       ELSE /\ Raise("NameError", next)
            /\ UNCHANGED node_results
    /\ UNCHANGED <<setupv, host_n, ds, fit, node_machine, saved, saveCount, devv>>

PlotExp == Plot("plot_exp", "figure", "analysis_gauss")

PlotGauss == Plot("plot_gauss", "figure_gaussian", "save")

\* Lines 357-360
Save ==
    /\ pc = "save"
    /\ node_results' = [node_results EXCEPT !.initial_parameters = <<parameters>>]
    /\ node_machine' = <<machine>>
    /\ saved' = <<[results |-> node_results', machine |-> machine]>>
    /\ saveCount' = saveCount + 1
    /\ pc' = "done"
    /\ UNCHANGED <<setupv, host_n, ds, fit, errv, devv>>

\* ---- failures of the external libraries
\* The step that follows each step calling into an external library
NextSite(site) ==
    CASE site = "connect" -> "select_qubits"
      [] site = "simulate_or_execute" ->
            IF parameters.simulate THEN "sim_save" ELSE "execute"
      [] site = "sim_save" -> "done"
      [] site = "execute" -> "poll"
      [] site = "poll" -> "data_fetching"
      [] site = "data_fetching" -> "analysis_exp"
      [] site = "analysis_exp" -> "plot_exp"
      [] site = "plot_exp" -> "analysis_gauss"
      [] site = "analysis_gauss" -> "plot_gauss"
      [] site = "plot_gauss" -> "save"
      [] site = "save" -> "done"

\* Whether the step at pc calls an external library in this run
CallsExternal ==
    /\ pc \in {"connect", "simulate_or_execute", "sim_save", "execute", "poll",
               "data_fetching", "analysis_exp", "plot_exp", "analysis_gauss",
               "plot_gauss", "save"}
    /\ pc \in {"connect", "simulate_or_execute"} => parameters.load_data_id = None

\* machine.connect, qmm.simulate, qm_session (its timeout), qm.execute,
\* fetch_all, fetch_results_as_xarray / load_from_id, the fits, matplotlib and
\* node.save may raise
ExternalFailure ==
    /\ CallsExternal
    /\ Raise("external", NextSite(pc))
    /\ UNCHANGED <<setupv, host_n, datav, devv>>

\* ------------------------------------------- the QUA program (96-137)
\* The Python loop of line 108 unrolls one block per selected qubit; the blocks
\* run in program order.
Op(name, arg) == [op |-> name, arg |-> arg]

Running(at) == job = "running" /\ qpc = at

\* Line 117: phi = detuning * 1e-9 * (4 * t), in 1e-9 turns
PhiOf(detuning, tt) == detuning * (4 * tt)

\* Line 123: frame_rotation_2pi adds phi turns to the frame of the element
FrameRotation2Pi(fr, ph) == (fr + ph) % Turn

\* Variant: reset_frame left out
KeepFrame(fr) == fr

\* Line 134: reset_frame
ResetFrame(fr) == 0

\* Line 130: init_state[i] ^ state[i]
FinalState(prev, cur) == Xor(prev, cur)

\* Variant: init_state[i] is not updated
KeepInitState(prev, cur) == prev

\* Line 132: assign(init_state[i], state[i])
CarryState(prev, cur) == cur

\* The block of the current qubit has ended: the next block, or the end of the
\* program (the streams are then complete)
EndOfBlock ==
    IF qi < num_qubits
    THEN qi' = qi + 1 /\ qpc' = "set_all_fluxes" /\ job' = job
    ELSE qi' = qi /\ qpc' = "halt" /\ job' = "done"

\* Line 111, and the initialisation of for_(n, 0, ...)
DSetAllFluxes ==
    /\ Running("set_all_fluxes")
    /\ n' = 0
    /\ qpc' = "for_n"
    /\ UNCHANGED <<hostv, job, qi, ti, t, regv, streamv, pulsev, ghostv>>

\* Line 113: n < n_avg holds
DForNEnter ==
    /\ Running("for_n")
    /\ n < n_avg
    /\ qpc' = "save_n"
    /\ UNCHANGED <<hostv, job, loopv, regv, streamv, pulsev, ghostv>>

\* Line 113: n < n_avg fails; lines 136-137
DForNExit ==
    /\ Running("for_n")
    /\ ~(n < n_avg)
    /\ IF ~parameters.multiplexed
       THEN qpc' = "align_all" /\ UNCHANGED <<job, qi>>
       ELSE EndOfBlock
    /\ UNCHANGED <<hostv, n, ti, t, regv, streamv, pulsev, ghostv>>

\* Line 137: align()
DAlignAll ==
    /\ Running("align_all")
    /\ EndOfBlock
    /\ UNCHANGED <<hostv, n, ti, t, regv, streamv, pulsev, ghostv>>

\* Line 114: save(n, n_st), and the start of for_each_
DSaveN ==
    /\ Running("save_n")
    /\ n_st' = Append(n_st, n)
    /\ ti' = 1
    /\ qpc' = "for_each_t"
    /\ UNCHANGED <<hostv, job, qi, n, t, regv, state_st, pulsev, ghostv>>

\* Line 115: the next idle time
DForEachEnter ==
    /\ Running("for_each_t")
    /\ ti <= Len(idle_times)
    /\ t' = idle_times[ti]
    /\ seq' = <<>>
    /\ qpc' = "assign_phi"
    /\ UNCHANGED <<hostv, job, qi, n, ti, regv, streamv, frame, ghostv>>

\* Line 115: the sweep is exhausted; n + 1 of line 113
DForEachExit ==
    /\ Running("for_each_t")
    /\ ti > Len(idle_times)
    /\ n' = n + 1
    /\ qpc' = "for_n"
    /\ UNCHANGED <<hostv, job, qi, ti, t, regv, streamv, pulsev, ghostv>>

\* Line 117
DAssignPhi ==
    /\ Running("assign_phi")
    /\ phi' = PhiOf(Detuning(parameters), t)
    /\ qpc' = "align_1"
    /\ UNCHANGED <<hostv, job, loopv, init_state, state, final_state,
                   streamv, pulsev, ghostv>>

\* Line 118
DAlignFirst ==
    /\ Running("align_1")
    /\ qpc' = "x90_1"
    /\ UNCHANGED <<hostv, job, loopv, regv, streamv, pulsev, ghostv>>

\* Line 121: the pulse is played in the current frame of the element
DPlayFirst ==
    /\ Running("x90_1")
    /\ seq' = Append(seq, Op("x90", frame[qi]))
    /\ qpc' = "wait"
    /\ UNCHANGED <<hostv, job, loopv, regv, streamv, frame, ghostv>>

\* Line 122
DWait ==
    /\ Running("wait")
    /\ seq' = Append(seq, Op("wait", t))
    /\ qpc' = "frame_rotation"
    /\ UNCHANGED <<hostv, job, loopv, regv, streamv, frame, ghostv>>

\* Line 123
DFrameRotation ==
    /\ Running("frame_rotation")
    /\ frame' = [frame EXCEPT ![qi] = FrameRotation2Pi(frame[qi], phi)]
    /\ seq' = Append(seq, Op("frame_rotation_2pi", phi))
    /\ qpc' = "x90_2"
    /\ UNCHANGED <<hostv, job, loopv, regv, streamv, ghostv>>

\* Line 124
DPlaySecond ==
    /\ Running("x90_2")
    /\ seq' = Append(seq, Op("x90", frame[qi]))
    /\ qpc' = "align_2"
    /\ UNCHANGED <<hostv, job, loopv, regv, streamv, frame, ghostv>>

\* Line 127
DAlignSecond ==
    /\ Running("align_2")
    /\ qpc' = "readout"
    /\ UNCHANGED <<hostv, job, loopv, regv, streamv, pulsev, ghostv>>

\* Line 129: readout_state(qubit, state[i]); the outcome is the qubit's
DReadout ==
    /\ Running("readout")
    /\ \E s \in {0, 1} :
        /\ state' = [state EXCEPT ![qi] = s]
        /\ meas' = [meas EXCEPT ![qi] = Append(meas[qi], s)]
    /\ seq' = Append(seq, Op("measure", 0))
    /\ qpc' = "assign_final"
    /\ UNCHANGED <<hostv, job, loopv, phi, init_state, final_state,
                   streamv, frame, iters>>

\* Line 130
DAssignFinal ==
    /\ Running("assign_final")
    /\ final_state' = [final_state EXCEPT ![qi] = FinalState(init_state[qi], state[qi])]
    /\ qpc' = "save_state"
    /\ UNCHANGED <<hostv, job, loopv, phi, init_state, state,
                   streamv, pulsev, ghostv>>

\* Line 131
DSaveState ==
    /\ Running("save_state")
    /\ state_st' = [state_st EXCEPT ![qi] = Append(state_st[qi], final_state[qi])]
    /\ qpc' = "assign_init"
    /\ UNCHANGED <<hostv, job, loopv, regv, n_st, pulsev, ghostv>>

\* Line 132
DAssignInit ==
    /\ Running("assign_init")
    /\ init_state' = [init_state EXCEPT ![qi] = CarryState(init_state[qi], state[qi])]
    /\ qpc' = "reset_frame"
    /\ UNCHANGED <<hostv, job, loopv, phi, state, final_state,
                   streamv, pulsev, ghostv>>

\* Line 134; the iteration for (n, t) is complete
DResetFrame ==
    /\ Running("reset_frame")
    /\ frame' = [frame EXCEPT ![qi] = ResetFrame(frame[qi])]
    /\ seq' = Append(seq, Op("reset_frame", 0))
    /\ iters' = [iters EXCEPT ![qi] = Append(iters[qi], <<n, t>>)]
    /\ ti' = ti + 1
    /\ qpc' = "for_each_t"
    /\ UNCHANGED <<hostv, job, qi, n, t, regv, streamv, meas>>

Device ==
    \/ DSetAllFluxes
    \/ DForNEnter
    \/ DForNExit
    \/ DAlignAll
    \/ DSaveN
    \/ DForEachEnter
    \/ DForEachExit
    \/ DAssignPhi
    \/ DAlignFirst
    \/ DPlayFirst
    \/ DWait
    \/ DFrameRotation
    \/ DPlaySecond
    \/ DAlignSecond
    \/ DReadout
    \/ DAssignFinal
    \/ DSaveState
    \/ DAssignInit
    \/ DResetFrame

Host ==
    \/ Connect
    \/ SelectQubitsAction
    \/ BuildProgram
    \/ Simulate
    \/ SimSave
    \/ OpenSession
    \/ SkipExecute
    \/ Execute
    \/ Poll
    \/ ExitPoll
    \/ Fetch
    \/ LoadData
    \/ AnalysisExp
    \/ PlotExp
    \/ AnalysisGauss
    \/ PlotGauss
    \/ Save

Next ==
    \/ Host
    \/ Device
    \/ ExternalFailure

Spec == Init /\ [][Next]_vars

\* The script is one thread that runs on until it ends: a host step that is
\* possible is eventually taken.  Nothing is assumed of the pulse processor or
\* of the external libraries.
FairSpec == Spec /\ WF_vars(Host)

\* ================================================================ claims
L == Len(idle_times)

\* The statement the script is at, or was at when it failed
CurSite == IF pc = "failed" THEN failedAt ELSE pc

\* The four phases of the script (5: the script has ended)
PhaseOf(site) ==
    CASE site \in {"connect", "select_qubits"} -> 1
      [] site \in {"build", "simulate_or_execute", "sim_save", "execute", "poll"} -> 2
      [] site = "data_fetching" -> 3
      [] site \in {"analysis_exp", "plot_exp", "analysis_gauss", "plot_gauss", "save"} -> 4
      [] site = "done" -> 5

HardwareRun == ~parameters.simulate /\ parameters.load_data_id = None

\* C1 (as claimed): every run passes the four phases: a run that has ended
\* without an exception has fetched (or loaded) a dataset and fitted it.
C1_AllPhasesOccur ==
    pc = "done" => ds # <<>> /\ fit # <<>> /\ node_results.figure_gaussian # <<>>

\* C1 (amended): the phases configure, build and run, fetch, fit and plot are
\* passed in this order and control never returns to an earlier one; the data
\* of a hardware run is fetched only once the program has run and the polling
\* loop has ended, and no fit or plot is made before the dataset exists.  A
\* completed non-simulated run has passed all four phases; a simulated run
\* ends after the second, with no dataset and no fit.
C1_PhaseOrder ==
    /\ [][PhaseOf(CurSite') >= PhaseOf(CurSite)]_vars
    /\ [](HardwareRun /\ PhaseOf(CurSite) >= 3 => job = "done")
    /\ [](PhaseOf(CurSite) = 3 => ds = <<>>)
    /\ [](PhaseOf(CurSite) = 4 => ds # <<>>)
    /\ [](fit # <<>> \/ node_results.figure_gaussian # <<>> => PhaseOf(CurSite) >= 4)
    /\ [](pc = "done" /\ ~parameters.simulate =>
            ds # <<>> /\ fit # <<>> /\ node_results.figure_gaussian # <<>>)
    /\ [](parameters.simulate => ds = <<>> /\ fit = <<>> /\ job = "none")

C1_Witness ==
    /\ pc = "done"
    /\ HardwareRun
    /\ ds # <<>>
    /\ node_results.figure_gaussian # <<>>

\* C2 (as claimed): after a completed non-simulated run the persisted machine
\* has, for each selected qubit, T2ramsey set to the fitted decay time and the
\* qubit frequency moved by the fitted frequency offset.
C2_MachineUpdated ==
    (pc = "done" /\ ~parameters.simulate) =>
        \A q \in Range(qubits) :
            LET rec == saved[1].results.fit_results[1][q]
                m == saved[1].machine[q]
            IN  /\ m.T2ramsey = rec.decay
                /\ m.f_01 \in {LoadedMachine[q].f_01 - rec.freq_offset,
                               LoadedMachine[q].f_01 + rec.freq_offset}

\* C3 (as claimed): node.save() is called exactly once in every completed run,
\* and what it saves holds 'fit_results', 'ds' and 'figure'.
C3_Original ==
    pc = "done" =>
        /\ saveCount = 1
        /\ {"fit_results", "ds", "figure"} \subseteq Keys(saved[1].results)

\* C3 (amended): node.save() is called exactly once in every completed run and
\* never in another, and it saves node.results as it is at that moment; in a
\* non-simulated run this holds 'fit_results', 'ds' and 'figure', in a
\* simulated run only 'figure'.
C3_SaveOnce ==
    /\ saveCount \in {0, 1}
    /\ saveCount = 1 <=> pc = "done"
    /\ saveCount = 1 <=> saved # <<>>
    /\ pc = "done" =>
        /\ saved[1].results = node_results
        /\ ~parameters.simulate =>
              {"fit_results", "ds", "figure"} \subseteq Keys(saved[1].results)
        /\ parameters.simulate => Keys(saved[1].results) = {"figure"}

C3_Witness ==
    /\ pc = "done"
    /\ ~parameters.simulate
    /\ saveCount = 1
    /\ Keys(saved[1].results) =
          {"fit_results", "ds", "figure", "figure_gaussian", "initial_parameters"}

\* C4: the polling loop is left only when the job no longer reports processing
\* (to the data fetching) or by an exception of an external library; while
\* the job is processing the loop goes on, and an iteration leaves in n the last
\* value of the averaging counter; once the program has finished, the loop ends.
C4_PollingLoop ==
    /\ [][pc = "poll" /\ pc' # "poll" =>
            \/ pc' = "data_fetching" /\ job = "done"
            \/ pc' = "failed" /\ error' = "external"]_vars
    /\ [][pc = "poll" /\ host_n' # host_n =>
            /\ job = "running" /\ pc' = "poll"
            /\ host_n' = Last(n_st)]_vars
    /\ ((pc = "poll" /\ job = "done") ~> (pc = "data_fetching" \/ error = "external"))

C4_Witness ==
    /\ pc = "data_fetching"
    /\ HardwareRun
    /\ host_n = n_avg - 1
    /\ n_avg > 1

\* C5 (as claimed): once an analysis has been made of the fit, whatever the
\* fit returned, node.results holds 'fit_results' with exactly one record per
\* selected qubit, holding 'freq_offset', 'decay' and 'decay_error'.
C5_RecordPerQubit ==
    fit # <<>> =>
        /\ node_results.fit_results # <<>>
        /\ DOMAIN node_results.fit_results[1] = Range(qubits)
        /\ \A q \in Range(qubits) :
              DOMAIN node_results.fit_results[1][q] =
                  {"freq_offset", "decay", "decay_error"}

\* C6: when the program of a hardware run has finished, every qubit's stream
\* holds n_avg * L values, the k-th saved at idle time idle_times[((k-1) % L) + 1];
\* the result of qubit i has L entries, entry j the average over the n_avg
\* repetitions of the values saved at the j-th idle time; the dataset has one
\* such row per selected qubit and the time coordinate 4 * idle_times[j].
C6_AveragedDataset ==
    job = "done" =>
        /\ \A i \in 1..num_qubits :
            /\ Len(state_st[i]) = n_avg * L
            /\ \A k \in 1..(n_avg * L) : iters[i][k][2] = idle_times[((k - 1) % L) + 1]
            /\ Len(ResultHandles[i]) = L
            /\ \A j \in 1..L :
                /\ ResultHandles[i][j].cnt = n_avg
                /\ ResultHandles[i][j].sum =
                      Cardinality({r \in 0..(n_avg - 1) : state_st[i][r * L + j] = 1})
        /\ ds # <<>> =>
            /\ DOMAIN ds[1].state = Range(qubits)
            /\ \A i \in 1..num_qubits : ds[1].state[qubits[i]] = ResultHandles[i]
            /\ Len(ds[1].time) = L
            /\ \A j \in 1..L : ds[1].time[j] = 4 * idle_times[j]

C6_Witness ==
    /\ pc = "done"
    /\ HardwareRun
    /\ n_avg = 2
    /\ L = 2
    /\ ds[1].state[qubits[1]] = <<[sum |-> 1, cnt |-> 2], [sum |-> 2, cnt |-> 2]>>
    /\ ds[1].time = <<16, 20>>

\* C7: an exception of an external library ends the script at the step that
\* raised it: no later step runs, node.save() is not called afterwards and
\* nothing has been persisted.
C7_FailureStops ==
    [][/\ (error = "none" /\ error' = "external") =>
              pc' = "failed" /\ failedAt' = pc /\ saveCount' = 0 /\ saved' = <<>>
       /\ error # "none" => UNCHANGED hostv]_vars

C7_Witness ==
    /\ error = "external"
    /\ failedAt = "analysis_gauss"
    /\ node_results.figure # <<>>
    /\ saveCount = 0
    /\ saved = <<>>

\* C8: for every qubit the iterations run over n = 0..n_avg-1 and, inside
\* each n, over the idle times in sweep order, each (n, t) once; an iteration
\* plays x90 in the reset frame, wait(t), the frame rotation by
\* phi = detuning * 4 * t, x90 in the frame rotated by phi alone, the
\* measurement, reset_frame, in this order.
C8_Expected(tt) ==
    LET ph == Detuning(parameters) * 4 * tt
    IN  <<Op("x90", 0), Op("wait", tt), Op("frame_rotation_2pi", ph),
          Op("x90", ph % Turn), Op("measure", 0), Op("reset_frame", 0)>>

C8_Pairs == [k \in 1..(n_avg * L) |-> <<(k - 1) \div L, idle_times[((k - 1) % L) + 1]>>]

C8_PulseSequence ==
    job # "none" =>
        /\ Len(seq) <= 6
        /\ seq = SubSeq(C8_Expected(t), 1, Len(seq))
        /\ \A i \in 1..num_qubits :
            /\ Len(iters[i]) <= n_avg * L
            /\ iters[i] = SubSeq(C8_Pairs, 1, Len(iters[i]))
            /\ (i < qi \/ job = "done") => iters[i] = C8_Pairs
            /\ i > qi => iters[i] = <<>>
        /\ (qpc = "for_each_t" /\ ti > 1) =>
            /\ seq = C8_Expected(t)
            /\ Last(iters[qi]) = <<n, t>>
            /\ frame[qi] = 0

C8_Witness ==
    /\ job = "done"
    /\ num_qubits = 2
    /\ n_avg = 1
    /\ L = 2
    /\ seq = C8_Expected(5)
    /\ iters[2] = <<(<<0, 4>>), (<<0, 5>>)>>

\* C9: from the second iteration of a qubit on, the value saved to its stream
\* is 1 if the state just measured differs from the state measured in the
\* qubit's preceding iteration and 0 if not, across idle times and averages
\* alike; outside lines 130-132 init_state[i] is the state last measured.
C9_SavedIsChange ==
    job # "none" =>
        \A i \in 1..num_qubits :
            /\ Len(state_st[i]) <= Len(meas[i])
            /\ \A k \in 2..Len(state_st[i]) :
                  state_st[i][k] = IF meas[i][k] # meas[i][k - 1] THEN 1 ELSE 0
            /\ (meas[i] # <<>>
                /\ ~(i = qi /\ qpc \in {"assign_final", "save_state", "assign_init"}))
                  => init_state[i] = Last(meas[i])
            /\ (i = qi /\ qpc = "assign_init")
                  => Last(state_st[i]) = Xor(init_state[i], state[i])

C9_Witness ==
    /\ job = "done"
    /\ n_avg = 2
    /\ L = 2
    /\ meas[1] = <<1, 1, 0, 0>>
    /\ SubSeq(state_st[1], 2, 4) = <<0, 1, 0>>

\* C10 (as claimed): with load_data_id set and simulate false the script
\* connects to no hardware, executes no program, takes the stored dataset and
\* completes both fits, both plots and the save.  (Runs ended by an exception
\* of an external library, or by a fit whose frequency is not positive, are
\* set aside.)
C10_LoadedRunCompletes ==
    (/\ parameters.load_data_id # None
     /\ ~parameters.simulate
     /\ pc \in {"done", "failed"}
     /\ error \notin {"external", "KeyError"}) =>
        /\ pc = "done"
        /\ ~qmm
        /\ job = "none"
        /\ ds = <<StoredDataset(qubits)>>
        /\ saveCount = 1
        /\ {"fit_results", "ds", "figure", "figure_gaussian"}
              \subseteq Keys(saved[1].results)
====
